---- MODULE Spec2Model ----
(***************************************************************************)
(* The okteto.up / okteto.down commands of src/src/extension.ts as a state *)
(* machine: one run of upCommand (install check, manifest selection,       *)
(* manifest load, namespace resolution, launch, the waitForFinalState      *)
(* polling loop and the report of its result), the cancellation handler    *)
(* waitForUp registers, and the downCommand runs that handler starts.      *)
(* The collaborators (okteto, manifest, kubernetes, vscode) are the        *)
(* environment: every call to one of them is a choice over the values it   *)
(* can hand back, and the calls made are recorded in history variables.    *)
(***************************************************************************)
EXTENDS Integers, Sequences, FiniteSets, TLC

VARIABLES
    workspace,       \* environment: the okteto manifests vscode.workspace.findFiles can see
    cli,             \* environment: the okteto binary okteto.needsInstall() looks at
    activeManifest,  \* extension.ts:11, the module's global
    pc,              \* where the run of upCommand stands
    manifestUri,     \* upCommand's local `manifestUri` (its fsPath)
    m,               \* upCommand's local `m`, the loaded manifest
    counter,         \* waitForFinalState's local `counter`, while it runs
    seen,            \* waitForFinalState's local `seen` (its keys), while it runs
    result,          \* what waitForFinalState handed back (or the error it let through)
    cancelled,       \* the progress notification's cancellation token
    downs,           \* the runs of downCommand, in the order they were started
    matched,         \* history: the files findFiles(path) gave upCommand for its `path`
    pickers,         \* history: how often upCommand opened the manifest picker
    upCalls,         \* history: the okteto.up invocations
    polls,           \* history: the okteto.getState invocations of the running loop
    last,            \* history: what the latest okteto.getState invocation gave
    atCap,           \* history: the loop ended on its timeout-th getState invocation
    returns,         \* history: how often waitForFinalState ended
    afterCancel,     \* history: getState invocations after the cancellation (counted up to 2)
    reports,         \* history: per raw tag, the progress.report calls of line 187
    finalized,       \* history: the number of finalizeUp calls
    failedCalls,     \* history: the messages handed to onOktetoFailed, with the caller
    downCalls,       \* history: the okteto.down invocations
    shown,           \* history: the messages shown by show{Information,Error}Message
    ended,           \* history: how the run of upCommand ended
    queries,         \* history: the (namespace, name) arguments of the okteto.getState invocations
    resolved,        \* history: the namespaces upCommand resolved m.namespace from
    checks,          \* history: the okteto.needsInstall checks, with the install they led to
    installs,        \* history: the runs of the okteto.install command
    second           \* a second run of upCommand: where it stands, and its locals

vars == <<workspace, cli, activeManifest, pc, manifestUri, m, counter, seen, result,
          cancelled, downs, matched, pickers, upCalls, polls, last, atCap, returns,
          afterCancel, reports, finalized, failedCalls, downCalls, shown, ended,
          queries, resolved, checks, installs,
          second>>

(***************************************************************************)
(* Values.  A message is a sequence of pieces, so that a template literal  *)
(* `prefix${x}` is the concatenation the code performs.  The empty string  *)
(* stands for every falsy string value (undefined, null, '').              *)
(***************************************************************************)
undefined == ""

\* the manifests a workspace can hold, and the `path` values a trigger can pass
ManifestFiles == {"okteto.yml"}
Paths == {undefined, "okteto.yml", "missing.yml"}

\* okteto.state.ready and okteto.state.failed, and the other raw tags getState
\* reports: one with an entry in okteto.getStateMessages(), one without
ready == "ready"
failed == "failed"
RawTags == {"starting", "stateless", ready, failed}

\* okteto.getStateMessages(): the tag -> message table; no entry gives undefined
getStateMessages(tag) ==
    CASE tag = "starting" -> "Starting your development environment..."
      [] tag = ready      -> "Your development environment is ready..."
      [] tag = failed     -> "Your development environment failed..."
      [] OTHER            -> undefined

\* the messages a failed state carries, and the errors the collaborators throw
FailureMessages == {"crash loop", "image pull failed"}
StateError == "state file unreadable"
InstallError == "download failed"
ManifestError == "invalid yaml"
DownError == "exit code 1"

\* okteto.getState(namespace, name): a PollResult, or the call fails
GetStateResults ==
    [threw : {FALSE}, state : RawTags \ {failed}, message : {""}]
      \cup [threw : {FALSE}, state : {failed}, message : FailureMessages]
      \cup [threw : {TRUE}, state : {undefined}, message : {StateError}]

NoPoll == [threw |-> FALSE, state |-> undefined, message |-> ""]

\* the states of the okteto binary, and okteto.needsInstall(): {install, upgrade}
Binaries == {"missing", "outdated", "current"}
needsInstall(binary) ==
    [install |-> binary # "current", upgrade |-> binary = "outdated"]

\* manifest.getManifest(path): a manifest with or without a namespace, or it throws
GetManifestResults ==
    [threw : {FALSE}, name : {"app"}, namespace : {undefined, "prod"}]
      \cup [threw : {TRUE}, name : {undefined}, namespace : {undefined}]

\* kubernetes.getCurrentNamespace(kubeconfig): the current namespace or nothing
CurrentNamespaces == {undefined, "dev"}

NoManifest == [name |-> undefined, namespace |-> undefined]
NoResult == [threw |-> FALSE, result |-> FALSE, message |-> undefined]

\* the second run of upCommand before it is started
NoSecond == [pc |-> "idle", manifestUri |-> undefined, m |-> NoManifest, counter |-> 0,
             seen |-> {}, result |-> NoResult, ended |-> undefined]

\* var timeout = 5 * 60
timeout == 5 * 60

Info(text) == <<"info", text>>
Error(text) == <<"error", text>>

(***************************************************************************)
(* installCmd(upgrade, handleErr), lines 49-79, given whether              *)
(* okteto.install() succeeds: what it shows and whether it throws.         *)
(***************************************************************************)
installCmd(upgrade, handleErr, installed) ==
    LET success == IF upgrade THEN <<"Okteto was successfully upgraded">>
                              ELSE <<"Okteto was successfully installed">>
        notInstalled == <<"Okteto was not installed: ", InstallError>>
    IN  IF installed
          THEN [threw |-> FALSE, error |-> <<>>, shown |-> {Info(success)}]
          ELSE IF handleErr
                 THEN [threw |-> FALSE, error |-> <<>>,
                       shown |-> {Error(notInstalled), Info(success)}]
                 ELSE [threw |-> TRUE, error |-> notInstalled, shown |-> {}]

\* installStep with the `return` of the catch block missing
installStep_goesOn(binary, installed) ==
    [returns |-> FALSE, shown |-> {}, cli |-> binary]

\* lines 91-99 and 220-228: the install step of a command on the binary it finds,
\* given whether okteto.install() succeeds: whether the command returns there, what
\* it shows and the binary it leaves
installStep(binary, installed) ==
    LET need == needsInstall(binary)
        inst == installCmd(need.upgrade, FALSE, installed)
    IN  IF ~need.install
          THEN [returns |-> FALSE, shown |-> {}, cli |-> binary]
          ELSE IF inst.threw
                 THEN [returns |-> TRUE, shown |-> {Error(inst.error)}, cli |-> binary]
                 ELSE [returns |-> FALSE, shown |-> inst.shown, cli |-> "current"]

\* lines 91-92 and 220-221: the check a run of a command makes, and whether the
\* install it asks for fails
needsInstallCheck(cmd, run, binary, installed) ==
    [cmd |-> cmd, run |-> run, install |-> needsInstall(binary).install,
     failed |-> needsInstall(binary).install /\ ~installed]

\* vscode.workspace.findFiles(path): the files of the workspace that match
findFiles(ws, p) == {f \in ws : f = p}

NoManifests == <<"No manifests found in your workspace.",
                 "Please run the 'Okteto: Create Manifest' command to create it and then try again.">>

\* showManifestPicker(), lines 333-353, given the item the user picks (or none)
showManifestPicker(ws, choice) ==
    IF ws = {}
      THEN [uri |-> undefined, shown |-> {Error(NoManifests)}]
      ELSE [uri |-> choice, shown |-> {}]

\* the user's possible answers to the quick pick over `ws`
Choices(ws) == ws \cup {undefined}

\* lines 104-112: the manifest upCommand goes on with, given the picker's answer
\* where it is asked
selectManifest(ws, p, choice) ==
    LET picked == showManifestPicker(ws, choice)
        ask == [uri |-> picked.uri, asked |-> TRUE, shown |-> picked.shown]
    IN  IF p # undefined
          THEN IF findFiles(ws, p) = {}
                 THEN ask
                 ELSE [uri |-> undefined, asked |-> FALSE, shown |-> {}]
          ELSE ask

(***************************************************************************)
(* upCommand(repository, path), lines 81-121: the install check and the    *)
(* selection of the manifest.  The workspace picker of lines 85-88 has no  *)
(* effect on the command (its result is dropped, and `repository` is only  *)
(* its label); the folder it may add is part of the workspace Init chooses.*)
(***************************************************************************)
upCommand(p) ==
    /\ pc = "idle"
    /\ \E installed \in BOOLEAN, choice \in Choices(workspace) :
         LET step == installStep(cli, installed)
             sel == selectManifest(workspace, p, choice)
         IN  /\ cli' = step.cli
             /\ checks' = Append(checks, needsInstallCheck("up", 1, cli, installed))
             /\ IF step.returns
                  THEN /\ shown' = shown \cup step.shown
                       /\ pc' = "done"
                       /\ ended' = "installFailed"
                       /\ UNCHANGED <<manifestUri, matched, pickers>>
                  ELSE /\ shown' = shown \cup step.shown \cup sel.shown
                       /\ manifestUri' = sel.uri
                       /\ matched' = IF p # undefined THEN findFiles(workspace, p) ELSE {}
                       /\ pickers' = IF sel.asked THEN pickers + 1 ELSE pickers
                       /\ pc' = IF sel.uri = undefined THEN "done" ELSE "loadManifest"
                       /\ ended' = IF sel.uri = undefined THEN "manifestDismissed" ELSE ended
    /\ UNCHANGED <<workspace, activeManifest, m, counter, seen, result, cancelled, downs,
                   upCalls, polls, last, atCap, returns, afterCancel, reports, finalized,
                   failedCalls, downCalls, queries, resolved, installs, second>>

\* onOktetoFailed(message), lines 328-331, called by `by`
onOktetoFailed(by, message) ==
    [calls |-> <<[by |-> by, message |-> message]>>, shown |-> {Error(message)}]

UpLoadFailed == <<"Okteto: Up failed to load your Okteto manifest: ", ManifestError>>
DownLoadFailed == <<"Okteto: Down failed to load your Okteto manifest: ", ManifestError>>

\* loadReturns with the catch block's `return` missing
loadReturns_goesOn(loaded) == FALSE

\* line 130: upCommand returns when manifest.getManifest threw
loadReturns(loaded) == loaded.threw

\* upCommand, lines 123-131
upLoadManifest ==
    /\ pc = "loadManifest"
    /\ \E loaded \in GetManifestResults :
         LET fail == onOktetoFailed("upCommand", UpLoadFailed)
         IN  /\ m' = IF loaded.threw THEN m
                     ELSE [name |-> loaded.name, namespace |-> loaded.namespace]
             /\ failedCalls' = IF loaded.threw THEN failedCalls \o fail.calls ELSE failedCalls
             /\ shown' = IF loaded.threw THEN shown \cup fail.shown ELSE shown
             /\ pc' = IF loadReturns(loaded) THEN "done" ELSE "launch"
             /\ ended' = IF loadReturns(loaded) THEN "manifestLoadFailed" ELSE ended
    /\ UNCHANGED <<workspace, cli, activeManifest, manifestUri, counter, seen, result,
                   cancelled, downs, matched, pickers, upCalls, polls, last, atCap,
                   returns, afterCancel, reports, finalized, downCalls, queries, resolved,
                   checks, installs, second>>

NoContext == <<"Couldn't detect your current Kubernetes context.">>

\* resolveNamespace with the current namespace taken whatever the manifest says
resolveNamespace_current(namespace, current) == current

\* lines 136-144 and 248-256: the namespace a command goes on with (undefined: it returns)
resolveNamespace(namespace, current) ==
    IF namespace = undefined THEN current ELSE namespace

\* lines 136-137: kubernetes.getCurrentNamespace is called only for a manifest without
\* a namespace; what upCommand read to resolve the namespace
namespaceRead(namespace, current) ==
    IF namespace = undefined
      THEN [manifest |-> namespace, read |-> TRUE, current |-> current]
      ELSE [manifest |-> namespace, read |-> FALSE, current |-> undefined]

\* okteto.up(manifestPath, namespace, name, kubeconfig) returns, or fails at once
UpThrows == BOOLEAN

\* afterUp with line 148 ahead of line 147
afterUp_activatesFirst(threw) == [activates |-> TRUE, waits |-> ~threw]

\* lines 147-151: okteto.up is called outside the try block, so its error leaves
\* upCommand before activeManifest is assigned and before waitForUp is called
afterUp(threw) == [activates |-> ~threw, waits |-> ~threw]

(***************************************************************************)
(* upCommand, lines 133-151, with what runs before the first await:        *)
(* waitForUp's registration of the cancellation handler (161-167) and the  *)
(* head of waitForFinalState (179-183).                                    *)
(***************************************************************************)
upLaunch ==
    /\ pc = "launch"
    /\ \E current \in CurrentNamespaces, threw \in UpThrows :
         LET ns == resolveNamespace(m.namespace, current)
             after == afterUp(threw)
         IN  /\ resolved' = Append(resolved, namespaceRead(m.namespace, current))
             /\ IF ns = undefined
                  THEN /\ shown' = shown \cup {Error(NoContext)}
                       /\ pc' = "done"
                       /\ ended' = "noNamespace"
                       /\ UNCHANGED <<m, upCalls, activeManifest, counter, seen>>
                  ELSE /\ m' = [m EXCEPT !.namespace = ns]
                       /\ upCalls' = Append(upCalls, [manifestPath |-> manifestUri,
                                                      namespace |-> ns, name |-> m.name,
                                                      run |-> 1, threw |-> threw])
                       /\ activeManifest' = IF after.activates THEN manifestUri
                                                               ELSE activeManifest
                       /\ seen' = {}
                       /\ counter' = 0
                       /\ pc' = IF after.waits THEN "polling" ELSE "done"
                       /\ ended' = IF after.waits THEN ended ELSE "launchFailed"
                       /\ UNCHANGED shown
    /\ UNCHANGED <<workspace, cli, manifestUri, result, cancelled, downs, matched, pickers,
                   polls, last, atCap, returns, afterCancel, reports, finalized,
                   failedCalls, downCalls, queries, checks, installs, second>>

(***************************************************************************)
(* waitForFinalState, lines 184-205: one turn of the loop.                 *)
(***************************************************************************)
\* line 186: the tag was not seen before
isNew(s, state) == state \notin s

\* seenSet without line 191
seenSet_forgets(s, state) == s

\* line 191
seenSet(s, state) == s \cup {state}

\* isReady with the tag misspelt
isReady_typo(res) == "running" = res.state

\* isFailed with every tag that has no message taken for a failure
isFailed_unknown(res) == failed = res.state \/ getStateMessages(res.state) = undefined

\* lines 193 and 195
isReady(res) == ready = res.state
isFailed(res) == failed = res.state

\* readyResult of a loop that gives way to the cancellation
readyResult_cancelled == [threw |-> FALSE, result |-> FALSE, message |-> "cancelled"]

\* lines 194, 196 and 201: the values waitForFinalState returns
readyResult == [threw |-> FALSE, result |-> TRUE, message |-> ""]

\* failedResult with the message of the ready result
failedResult_blank(res) == [threw |-> FALSE, result |-> FALSE, message |-> ""]

failedResult(res) == [threw |-> FALSE, result |-> FALSE, message |-> res.message]
timeoutResult == [threw |-> FALSE, result |-> FALSE,
                  message |-> "task didn't finish in 5 minutes"]

\* timedOut with the minutes not turned into seconds
timedOut_minutes(c) == c = 5

\* line 200, on the incremented counter
timedOut(c) == c = timeout

\* line 185: getState's error is not caught, it leaves waitForFinalState
thrown(res) == [threw |-> TRUE, result |-> FALSE, message |-> res.message]

\* turn with the counter started again whenever the tag is a new one
turn_resets(s, c, res) ==
    LET progress == IF isNew(s, res.state) THEN <<getStateMessages(res.state)>> ELSE <<>>
        n == IF isNew(s, res.state) THEN 1 ELSE c + 1
    IN  IF res.threw
          THEN [ends |-> TRUE, value |-> thrown(res), progress |-> <<>>,
                seen |-> s, counter |-> c]
        ELSE IF isReady(res)
          THEN [ends |-> TRUE, value |-> readyResult, progress |-> progress,
                seen |-> seenSet(s, res.state), counter |-> c]
        ELSE IF isFailed(res)
          THEN [ends |-> TRUE, value |-> failedResult(res), progress |-> progress,
                seen |-> seenSet(s, res.state), counter |-> c]
        ELSE IF timedOut(n)
          THEN [ends |-> TRUE, value |-> timeoutResult, progress |-> progress,
                seen |-> seenSet(s, res.state), counter |-> n]
        ELSE [ends |-> FALSE, value |-> NoResult, progress |-> progress,
              seen |-> seenSet(s, res.state), counter |-> n]

\* lines 185-202: what one turn of the loop does with what getState gave: the
\* progress it reports, the locals it leaves, and the value it returns if it returns
turn(s, c, res) ==
    LET progress == IF isNew(s, res.state) THEN <<getStateMessages(res.state)>> ELSE <<>>
    IN  IF res.threw
          THEN [ends |-> TRUE, value |-> thrown(res), progress |-> <<>>,
                seen |-> s, counter |-> c]
        ELSE IF isReady(res)
          THEN [ends |-> TRUE, value |-> readyResult, progress |-> progress,
                seen |-> seenSet(s, res.state), counter |-> c]
        ELSE IF isFailed(res)
          THEN [ends |-> TRUE, value |-> failedResult(res), progress |-> progress,
                seen |-> seenSet(s, res.state), counter |-> c]
        ELSE IF timedOut(c + 1)
          THEN [ends |-> TRUE, value |-> timeoutResult, progress |-> progress,
                seen |-> seenSet(s, res.state), counter |-> c + 1]
        ELSE [ends |-> FALSE, value |-> NoResult, progress |-> progress,
              seen |-> seenSet(s, res.state), counter |-> c + 1]

Min(a, b) == IF a < b THEN a ELSE b

\* One turn; when waitForFinalState returns (or lets the error through) its locals
\* are gone, and the count of its getState calls is kept as atCap.  Its parameters
\* `namespace` and `name` are the m.namespace and m.name of line 151, and upCommand
\* does not assign m after that line.
waitForFinalState ==
    /\ pc = "polling"
    /\ \E res \in GetStateResults :
         LET t == turn(seen, counter, res)
         IN  /\ last' = res
             /\ queries' = queries \cup {[namespace |-> m.namespace, name |-> m.name]}
             /\ afterCancel' = IF cancelled THEN Min(afterCancel + 1, 2) ELSE afterCancel
             /\ reports' = IF res.threw THEN reports
                           ELSE [reports EXCEPT ![res.state] = @ \o t.progress]
             /\ IF t.ends
                  THEN /\ result' = t.value
                       /\ returns' = returns + 1
                       /\ atCap' = (polls + 1 = timeout)
                       /\ pc' = "returned"
                       /\ seen' = {}
                       /\ counter' = 0
                       /\ polls' = 0
                  ELSE /\ seen' = t.seen
                       /\ counter' = t.counter
                       /\ polls' = polls + 1
                       /\ UNCHANGED <<result, returns, atCap, pc>>
    /\ UNCHANGED <<workspace, cli, activeManifest, manifestUri, m, cancelled, downs,
                   matched, pickers, upCalls, finalized, failedCalls, downCalls, shown,
                   ended, resolved, checks, installs, second>>

\* waitForUp with getState's error caught and dropped
waitForUp_swallows(res) ==
    IF ~res.threw /\ ~res.result
      THEN [threw |-> TRUE, message |-> <<"Okteto: Up command failed: ", res.message>>]
      ELSE [threw |-> FALSE, message |-> <<>>]

\* waitForUp, lines 169-174, and the error that leaves withProgress: what upCommand's
\* `await waitForUp` throws, if it throws
waitForUp(res) ==
    IF res.threw
      THEN [threw |-> TRUE, message |-> <<res.message>>]
      ELSE IF ~res.result
             THEN [threw |-> TRUE,
                   message |-> <<"Okteto: Up command failed: ", res.message>>]
             ELSE [threw |-> FALSE, message |-> <<>>]

\* upReports with the catch block's `return` missing
upReports_fallsThrough(w) == [failed |-> w.threw, finalize |-> TRUE]

\* upCommand, lines 150-157: which of onOktetoFailed and finalizeUp it calls
upReports(w) == [failed |-> w.threw, finalize |-> ~w.threw]

ContainerReady == <<"Your development container is ready!">>

\* upCommand, lines 150-157, with finalizeUp (212-217)
upCommandEnd ==
    /\ pc = "returned"
    /\ LET w == waitForUp(result)
           r == upReports(w)
           fail == onOktetoFailed("upCommand", w.message)
       IN  /\ failedCalls' = IF r.failed THEN failedCalls \o fail.calls ELSE failedCalls
           /\ finalized' = IF r.finalize THEN finalized + 1 ELSE finalized
           /\ shown' = shown \cup (IF r.failed THEN fail.shown ELSE {})
                             \cup (IF r.finalize THEN {Info(ContainerReady)} ELSE {})
           /\ ended' = IF r.finalize THEN "ready" ELSE "failed"
    /\ pc' = "done"
    /\ UNCHANGED <<workspace, cli, activeManifest, manifestUri, m, counter, seen, result,
                   cancelled, downs, matched, pickers, upCalls, polls, last, atCap,
                   returns, afterCancel, reports, downCalls, queries, resolved, checks,
                   installs, second>>

(***************************************************************************)
(* The handler of lines 164-167: the user cancels the progress             *)
(* notification, which is open while waitForFinalState runs, and the       *)
(* handler starts the okteto.down command.                                 *)
(***************************************************************************)
NewDown(origin) == [pc |-> "start", origin |-> origin, end |-> undefined,
                    manifestPath |-> undefined, namespace |-> undefined, asked |-> FALSE]

onCancellationRequested ==
    /\ pc = "polling"
    /\ ~cancelled
    /\ cancelled' = TRUE
    /\ downs' = Append(downs, NewDown("cancel"))
    /\ UNCHANGED <<workspace, cli, activeManifest, pc, manifestUri, m, counter, seen,
                   result, matched, pickers, upCalls, polls, last, atCap, returns,
                   afterCancel, reports, finalized, failedCalls, downCalls, shown, ended,
                   queries, resolved, checks, installs, second>>

\* getManifestOrAsk that opens the picker whatever activeManifest holds
getManifestOrAsk_asks(active, ws, choice) ==
    [path |-> showManifestPicker(ws, choice).uri,
     shown |-> showManifestPicker(ws, choice).shown, asked |-> TRUE]

\* getManifestOrAsk(), lines 270-282, given the picker's answer
getManifestOrAsk(active, ws, choice) ==
    IF active # undefined
      THEN [path |-> active, shown |-> {}, asked |-> FALSE]
      ELSE [path |-> showManifestPicker(ws, choice).uri,
            shown |-> showManifestPicker(ws, choice).shown, asked |-> TRUE]

(***************************************************************************)
(* downCommand, lines 219-259, up to the call of okteto.down: where the    *)
(* run ends ("" when it goes on to okteto.down), with what manifest and    *)
(* namespace, whether it opened the picker, what it shows and what it      *)
(* hands to onOktetoFailed.                                                *)
(***************************************************************************)
downCommandStep(active, ws, binary, installed, choice, loaded, current) ==
    LET step == installStep(binary, installed)
        asked == getManifestOrAsk(active, ws, choice)
        fail == onOktetoFailed("downCommand", DownLoadFailed)
        ns == resolveNamespace(loaded.namespace, current)
        none == [end |-> undefined, manifestPath |-> undefined, namespace |-> undefined,
                 shown |-> step.shown, failed |-> <<>>, cli |-> step.cli,
                 asked |-> asked.asked]
    IN  IF step.returns
          THEN [none EXCEPT !.end = "installFailed", !.asked = FALSE]
        ELSE IF asked.path = undefined
          THEN [none EXCEPT !.end = "noManifest", !.shown = @ \cup asked.shown]
        ELSE IF loaded.threw
          THEN [none EXCEPT !.end = "manifestLoadFailed", !.manifestPath = asked.path,
                            !.shown = @ \cup fail.shown, !.failed = fail.calls]
        ELSE IF ns = undefined
          THEN [none EXCEPT !.end = "noNamespace", !.manifestPath = asked.path,
                            !.shown = @ \cup {Error(NoContext)}]
        ELSE [none EXCEPT !.manifestPath = asked.path, !.namespace = ns]

downCommand(i) ==
    /\ downs[i].pc = "start"
    /\ \E installed \in BOOLEAN, choice \in Choices(workspace),
          loaded \in GetManifestResults, current \in CurrentNamespaces :
         LET d == downCommandStep(activeManifest, workspace, cli, installed, choice,
                                  loaded, current)
         IN  /\ downs' = [downs EXCEPT ![i] =
                            [pc |-> IF d.end = undefined THEN "awaitDown" ELSE "done",
                             origin |-> @.origin, end |-> d.end,
                             manifestPath |-> d.manifestPath, namespace |-> d.namespace,
                             asked |-> d.asked]]
             /\ cli' = d.cli
             /\ checks' = Append(checks, needsInstallCheck("down", i, cli, installed))
             /\ shown' = shown \cup d.shown
             /\ failedCalls' = failedCalls \o d.failed
             /\ downCalls' = IF d.end = undefined
                               THEN Append(downCalls, [run |-> i,
                                                       manifestPath |-> d.manifestPath,
                                                       namespace |-> d.namespace])
                               ELSE downCalls
    /\ UNCHANGED <<workspace, activeManifest, pc, manifestUri, m, counter, seen, result,
                   cancelled, matched, pickers, upCalls, polls, last, atCap, returns,
                   afterCancel, reports, finalized, ended, queries, resolved, installs,
                   second>>

Deactivated == <<"Okteto environment deactivated">>
DownFailed == <<"Okteto: Down failed: ", DownError>>

\* downCommand, lines 258-267: okteto.down settles
downSettled(i) ==
    /\ downs[i].pc = "awaitDown"
    /\ \E ok \in BOOLEAN :
         IF ok
           THEN /\ activeManifest' = undefined
                /\ shown' = shown \cup {Info(Deactivated)}
                /\ downs' = [downs EXCEPT ![i].pc = "done", ![i].end = "down"]
           ELSE /\ shown' = shown \cup {Error(DownFailed)}
                /\ downs' = [downs EXCEPT ![i].pc = "done", ![i].end = "downFailed"]
                /\ UNCHANGED activeManifest
    /\ UNCHANGED <<workspace, cli, pc, manifestUri, m, counter, seen, result, cancelled,
                   matched, pickers, upCalls, polls, last, atCap, returns, afterCancel,
                   reports, finalized, failedCalls, downCalls, ended, queries, resolved,
                   checks, installs, second>>

\* the extension as activate() leaves it: no command has run
Activated ==
    /\ activeManifest = undefined
    /\ pc = "idle"
    /\ manifestUri = undefined
    /\ m = NoManifest
    /\ counter = 0
    /\ seen = {}
    /\ result = NoResult
    /\ cancelled = FALSE
    /\ downs = <<>>
    /\ matched = {}
    /\ pickers = 0
    /\ upCalls = <<>>
    /\ polls = 0
    /\ last = NoPoll
    /\ atCap = FALSE
    /\ returns = 0
    /\ afterCancel = 0
    /\ reports = [t \in RawTags |-> <<>>]
    /\ finalized = 0
    /\ failedCalls = <<>>
    /\ downCalls = <<>>
    /\ shown = {}
    /\ ended = undefined
    /\ queries = {}
    /\ resolved = <<>>
    /\ checks = <<>>
    /\ installs = <<>>
    /\ second = NoSecond

Init ==
    /\ workspace \in SUBSET ManifestFiles
    /\ cli \in Binaries
    /\ Activated

Next ==
    \/ \E p \in Paths : upCommand(p)
    \/ upLoadManifest
    \/ upLaunch
    \/ waitForFinalState
    \/ upCommandEnd
    \/ onCancellationRequested
    \/ \E i \in DOMAIN downs : downCommand(i)
    \/ \E i \in DOMAIN downs : downSettled(i)

Spec == Init /\ [][Next]_vars

(***************************************************************************)
(* The okteto.down command run by the user, line 28, once the run of       *)
(* upCommand and the runs of downCommand before it are over (while         *)
(* upCommand polls, the command is the one the cancellation starts).  At   *)
(* most MaxDowns such runs are followed.                                   *)
(***************************************************************************)
MaxDowns == 1

UserDowns == {i \in DOMAIN downs : downs[i].origin = "user"}

downCommandByUser ==
    /\ pc = "done"
    /\ \A i \in DOMAIN downs : downs[i].pc = "done"
    /\ Cardinality(UserDowns) < MaxDowns
    /\ downs' = Append(downs, NewDown("user"))
    /\ UNCHANGED <<workspace, cli, activeManifest, pc, manifestUri, m, counter, seen,
                   result, cancelled, matched, pickers, upCalls, polls, last, atCap,
                   returns, afterCancel, reports, finalized, failedCalls, downCalls,
                   shown, ended, queries, resolved, checks, installs, second>>

NextDown == Next \/ downCommandByUser

SpecDown == Init /\ [][NextDown]_vars

(***************************************************************************)
(* Two runs of upCommand at a time: nothing in activate() or upCommand     *)
(* keeps the okteto.up command (line 27) or the URI handler (34-46) from   *)
(* starting upCommand again while a run of it awaits.  The second run is   *)
(* the same code on its own locals, kept in `second`; it is started while  *)
(* the first run polls, in a workspace of two manifests and with an okteto *)
(* binary that needs no install, and its progress notification is not      *)
(* cancelled.  Here okteto.getState gives ready or failed (or fails) after *)
(* at most MaxTicks other answers.                                         *)
(***************************************************************************)
MaxTicks == 1

TwoManifests == {"okteto.yml", "api/okteto.yml"}

\* upCommand, lines 81-121, of the second run
upCommand2(p) ==
    /\ pc = "polling"
    /\ second.pc = "idle"
    /\ \E installed \in BOOLEAN, choice \in Choices(workspace) :
         LET step == installStep(cli, installed)
             sel == selectManifest(workspace, p, choice)
         IN  /\ cli' = step.cli
             /\ checks' = Append(checks, needsInstallCheck("up", 2, cli, installed))
             /\ IF step.returns
                  THEN /\ shown' = shown \cup step.shown
                       /\ second' = [second EXCEPT !.pc = "done",
                                                   !.ended = "installFailed"]
                  ELSE /\ shown' = shown \cup step.shown \cup sel.shown
                       /\ second' = IF sel.uri = undefined
                                      THEN [second EXCEPT !.pc = "done",
                                                          !.ended = "manifestDismissed"]
                                      ELSE [second EXCEPT !.pc = "loadManifest",
                                                          !.manifestUri = sel.uri]
    /\ UNCHANGED <<workspace, activeManifest, pc, manifestUri, m, counter, seen, result,
                   cancelled, downs, matched, pickers, upCalls, polls, last, atCap,
                   returns, afterCancel, reports, finalized, failedCalls, downCalls,
                   ended, queries, resolved, installs>>

\* upCommand, lines 123-131, of the second run
upLoadManifest2 ==
    /\ second.pc = "loadManifest"
    /\ \E loaded \in GetManifestResults :
         LET fail == onOktetoFailed("upCommand", UpLoadFailed)
         IN  /\ failedCalls' = IF loaded.threw THEN failedCalls \o fail.calls
                                               ELSE failedCalls
             /\ shown' = IF loaded.threw THEN shown \cup fail.shown ELSE shown
             /\ second' = IF loadReturns(loaded)
                            THEN [second EXCEPT !.pc = "done",
                                                !.ended = "manifestLoadFailed"]
                            ELSE [second EXCEPT !.pc = "launch",
                                                !.m = [name |-> loaded.name,
                                                       namespace |-> loaded.namespace]]
    /\ UNCHANGED <<workspace, cli, activeManifest, pc, manifestUri, m, counter, seen,
                   result, cancelled, downs, matched, pickers, upCalls, polls, last,
                   atCap, returns, afterCancel, reports, finalized, downCalls, ended,
                   queries, resolved, checks, installs>>

\* upCommand, lines 133-151, of the second run
upLaunch2 ==
    /\ second.pc = "launch"
    /\ \E current \in CurrentNamespaces, threw \in UpThrows :
         LET ns == resolveNamespace(second.m.namespace, current)
             after == afterUp(threw)
         IN  IF ns = undefined
               THEN /\ shown' = shown \cup {Error(NoContext)}
                    /\ second' = [second EXCEPT !.pc = "done", !.ended = "noNamespace"]
                    /\ UNCHANGED <<upCalls, activeManifest>>
               ELSE /\ upCalls' = Append(upCalls, [manifestPath |-> second.manifestUri,
                                                   namespace |-> ns,
                                                   name |-> second.m.name,
                                                   run |-> 2, threw |-> threw])
                    /\ activeManifest' = IF after.activates THEN second.manifestUri
                                                            ELSE activeManifest
                    /\ second' = IF after.waits
                                   THEN [second EXCEPT !.pc = "polling",
                                                       !.m.namespace = ns,
                                                       !.counter = 0, !.seen = {}]
                                   ELSE [second EXCEPT !.pc = "done", !.m.namespace = ns,
                                                       !.ended = "launchFailed"]
                    /\ UNCHANGED shown
    /\ UNCHANGED <<workspace, cli, pc, manifestUri, m, counter, seen, result, cancelled,
                   downs, matched, pickers, polls, last, atCap, returns, afterCancel,
                   reports, finalized, failedCalls, downCalls, ended, queries, resolved,
                   checks, installs>>

\* waitForFinalState, lines 184-205, of the second run: one turn
waitForFinalState2 ==
    /\ second.pc = "polling"
    /\ \E res \in GetStateResults :
         LET t == turn(second.seen, second.counter, res)
         IN  second' = IF t.ends
                         THEN [second EXCEPT !.pc = "returned", !.result = t.value,
                                             !.counter = 0, !.seen = {}]
                         ELSE [second EXCEPT !.counter = t.counter, !.seen = t.seen]
    /\ UNCHANGED <<workspace, cli, activeManifest, pc, manifestUri, m, counter, seen,
                   result, cancelled, downs, matched, pickers, upCalls, polls, last,
                   atCap, returns, afterCancel, reports, finalized, failedCalls,
                   downCalls, shown, ended, queries, resolved, checks, installs>>

\* upCommand, lines 150-157, of the second run
upCommandEnd2 ==
    /\ second.pc = "returned"
    /\ LET w == waitForUp(second.result)
           r == upReports(w)
           fail == onOktetoFailed("upCommand", w.message)
       IN  /\ failedCalls' = IF r.failed THEN failedCalls \o fail.calls ELSE failedCalls
           /\ finalized' = IF r.finalize THEN finalized + 1 ELSE finalized
           /\ shown' = shown \cup (IF r.failed THEN fail.shown ELSE {})
                             \cup (IF r.finalize THEN {Info(ContainerReady)} ELSE {})
           /\ second' = [second EXCEPT !.pc = "done",
                                       !.ended = IF r.finalize THEN "ready" ELSE "failed"]
    /\ UNCHANGED <<workspace, cli, activeManifest, pc, manifestUri, m, counter, seen,
                   result, cancelled, downs, matched, pickers, upCalls, polls, last,
                   atCap, returns, afterCancel, reports, downCalls, ended, queries,
                   resolved, checks, installs>>

\* a turn of either loop within the MaxTicks answers
waitForFinalStateSoon == waitForFinalState /\ polls' <= MaxTicks
waitForFinalState2Soon == waitForFinalState2 /\ second'.counter <= MaxTicks

InitTwo ==
    /\ workspace = TwoManifests
    /\ cli = "current"
    /\ Activated

NextTwo ==
    \/ \E p \in Paths : upCommand(p)
    \/ upLoadManifest
    \/ upLaunch
    \/ waitForFinalStateSoon
    \/ upCommandEnd
    \/ onCancellationRequested
    \/ \E i \in DOMAIN downs : downCommand(i)
    \/ \E i \in DOMAIN downs : downSettled(i)
    \/ \E p \in Paths : upCommand2(p)
    \/ upLoadManifest2
    \/ upLaunch2
    \/ waitForFinalState2Soon
    \/ upCommandEnd2

SpecTwo == InitTwo /\ [][NextTwo]_vars

(***************************************************************************)
(* The okteto.install command, line 29: installCmd run from the command    *)
(* palette, a key binding or vscode.commands.executeCommand, which hand it *)
(* the arguments they were given (a missing argument is undefined, falsy   *)
(* like false).  At most MaxInstalls runs are followed.                    *)
(***************************************************************************)
MaxInstalls == 2

installCommand ==
    /\ Len(installs) < MaxInstalls
    /\ \E upgrade \in BOOLEAN, handleErr \in BOOLEAN, installed \in BOOLEAN :
         LET inst == installCmd(upgrade, handleErr, installed)
         IN  /\ installs' = Append(installs, [upgrade |-> upgrade, handleErr |-> handleErr,
                                              installed |-> installed,
                                              threw |-> inst.threw, error |-> inst.error,
                                              shown |-> inst.shown])
             /\ shown' = shown \cup inst.shown
             /\ cli' = IF installed THEN "current" ELSE cli
    /\ UNCHANGED <<workspace, activeManifest, pc, manifestUri, m, counter, seen, result,
                   cancelled, downs, matched, pickers, upCalls, polls, last, atCap,
                   returns, afterCancel, reports, finalized, failedCalls, downCalls,
                   ended, queries, resolved, checks, second>>

SpecInstall == Init /\ [][installCommand]_vars

(***************************************************************************)
(* Properties.                                                             *)
(***************************************************************************)
\* what upCommand handed to onOktetoFailed
UpFailed == SelectSeq(failedCalls, LAMBDA c : c.by = "upCommand")
UpFailedWith(message) == <<[by |-> "upCommand", message |-> message]>>
Terminal(res) == ~res.threw /\ res.state \in {ready, failed}
Polled == last # NoPoll

\* the latest okteto.up invocation and what upCommand resolved its namespace from
Launch == upCalls[Len(upCalls)]
Resolved == resolved[Len(resolved)]
Launched == upCalls # <<>> /\ ~Launch.threw

\* C1: once the cancellation is raised the loop issues no getState after the turn
\* in flight, and the attempt is reported neither to finalizeUp nor to onOktetoFailed
\* (but for the result of that one turn).
C1_CancellationStopsPolling ==
    cancelled =>
        /\ afterCancel <= 1
        /\ (pc = "done" /\ afterCancel # 1) => (finalized = 0 /\ UpFailed = <<>>)

\* C2: when getState gives the ready state the loop has ended on that turn with
\* {result: true}, so that no further getState is issued, and upCommand calls
\* finalizeUp and never onOktetoFailed.
C2_ReadyEndsWithFinalizeUp ==
    (~last.threw /\ last.state = ready) =>
        /\ pc \in {"returned", "done"}
        /\ result = readyResult
        /\ UpFailed = <<>>
        /\ finalized = IF pc = "done" THEN 1 ELSE 0

C2_Witness ==
    /\ last.state = ready
    /\ reports["starting"] # <<>>
    /\ pc = "done"

\* C3: when getState gives the failed state with a message the loop has ended on
\* that turn, finalizeUp is never called, and onOktetoFailed gets
\* 'Okteto: Up command failed: ' followed by exactly that message.
C3_FailedCarriesMessage ==
    (~last.threw /\ last.state = failed) =>
        /\ pc \in {"returned", "done"}
        /\ result = [threw |-> FALSE, result |-> FALSE, message |-> last.message]
        /\ finalized = 0
        /\ UpFailed = IF pc = "done"
                        THEN UpFailedWith(<<"Okteto: Up command failed: ", last.message>>)
                        ELSE <<>>

C3_Witness ==
    /\ last.state = failed
    /\ last.message = "crash loop"
    /\ reports["starting"] # <<>>
    /\ pc = "done"

\* C4: the loop never runs past `timeout` getState calls; it returns the timeout
\* message on exactly its timeout-th call and on no other, and a ready or failed
\* state given by that call is returned instead.
C4_TimeoutAtCap ==
    /\ pc = "polling" => polls < timeout
    /\ result.message = "task didn't finish in 5 minutes" =>
           /\ atCap
           /\ result = timeoutResult
           /\ ~Terminal(last) /\ ~last.threw
           /\ pc = "done" => UpFailed = UpFailedWith(<<"Okteto: Up command failed: ",
                                                       "task didn't finish in 5 minutes">>)
    /\ (atCap /\ ~Terminal(last) /\ ~last.threw) => result = timeoutResult
    /\ (atCap /\ ~last.threw /\ last.state = ready) => result = readyResult
    /\ (atCap /\ ~last.threw /\ last.state = failed) =>
           result = [threw |-> FALSE, result |-> FALSE, message |-> last.message]

C4_Witness ==
    /\ result = timeoutResult
    /\ atCap
    /\ pc = "done"

\* the state part of C5
C5_OneOutcome ==
    /\ returns <= 1
    /\ finalized + Len(UpFailed) <= 1
    /\ (pc = "polling" => returns = 0 /\ finalized + Len(UpFailed) = 0)
    /\ (pc = "returned" => returns = 1 /\ finalized + Len(UpFailed) = 0)
    /\ (pc = "done" /\ Launched) => (returns = 1 /\ finalized + Len(UpFailed) = 1)

\* C5: an attempt that was launched ends waitForFinalState at most once (by its
\* return, or by the getState error it lets through), and when upCommand is done it
\* ended once and exactly one of finalizeUp and onOktetoFailed was called, none of
\* them before waitForFinalState ended; no progress is reported once
\* waitForFinalState has ended.
C5_ExactlyOneOutcome ==
    /\ []C5_OneOutcome
    /\ [][(pc \in {"returned", "done"}) => (reports' = reports)]_vars

C5_Witness ==
    /\ pc = "done"
    /\ returns = 1
    /\ finalized = 1
    /\ reports["starting"] # <<>>

\* the okteto.down invocations of the i-th run of downCommand
TeardownsOf(i) == {j \in DOMAIN downCalls : downCalls[j].run = i}

\* C6: every downCommand the cancellation started and that is over has invoked
\* okteto.down exactly once, whether okteto.down succeeded or not.
C6_OneTeardownPerCancellation ==
    \A i \in DOMAIN downs :
        (downs[i].origin = "cancel" /\ downs[i].pc = "done") =>
            Cardinality(TeardownsOf(i)) = 1

\* C7: within the attempt progress is reported for a raw tag at most once, and it
\* was reported for every tag getState has given, however many turns gave it.
C7_ProgressOncePerTag ==
    /\ \A t \in RawTags : Len(reports[t]) <= 1
    /\ \A t \in seen : Len(reports[t]) = 1
    /\ (Polled /\ ~last.threw) => Len(reports[last.state]) = 1

C7_Witness ==
    /\ pc = "polling"
    /\ polls >= 3
    /\ seen = {"starting"}
    /\ Len(reports["starting"]) = 1

\* C8, as claimed: a getState call that throws does not end the attempt, the loop
\* is still running to try again.
C8_QueryFailureIsRetried ==
    last.threw => pc = "polling"

\* C8, amended: a getState call that throws ends the loop on that turn with the
\* error, and upCommand hands the error's own message to onOktetoFailed and never
\* calls finalizeUp.
C8_QueryFailureEndsAttempt ==
    last.threw =>
        /\ pc \in {"returned", "done"}
        /\ result = [threw |-> TRUE, result |-> FALSE, message |-> last.message]
        /\ finalized = 0
        /\ UpFailed = IF pc = "done" THEN UpFailedWith(<<last.message>>) ELSE <<>>

C8_Witness ==
    /\ last.threw
    /\ reports["starting"] # <<>>
    /\ pc = "done"

\* C9: an upCommand whose `path` matches a file of the workspace goes on with that
\* file without opening the picker; the picker is opened only when no path is given
\* or the path matches no file.
C9_MatchingPathIsLaunched ==
    /\ (matched # {} /\ pc # "idle") => (manifestUri \in matched /\ pickers = 0)
    /\ pickers > 0 => matched = {}

\* upCommand handed the load failure to onOktetoFailed
LoadFailureReported ==
    \E i \in DOMAIN failedCalls :
        failedCalls[i] = [by |-> "upCommand", message |-> UpLoadFailed]

\* C10: when loading the manifest fails upCommand reports the failure and is over:
\* okteto.up was not invoked, nothing was polled and activeManifest is as it was.
C10_LoadFailureStopsUp ==
    /\ ended = "manifestLoadFailed" => LoadFailureReported
    /\ LoadFailureReported =>
           /\ pc = "done"
           /\ ended = "manifestLoadFailed"
           /\ Error(UpLoadFailed) \in shown
           /\ upCalls = <<>>
           /\ ~Polled
           /\ activeManifest = undefined

C10_Witness ==
    /\ ended = "manifestLoadFailed"
    /\ pickers = 1

\* C11: every getState of an attempt is called with the (namespace, name) okteto.up
\* was called with; that namespace is the manifest's when it has one and else the
\* current namespace of the kubeconfig, which is read in that case only; and when
\* the manifest has none and none is current, okteto.up and getState are not called.
C11_OneResolvedIdentity ==
    /\ \A q \in queries :
           upCalls # <<>> /\ q = [namespace |-> Launch.namespace, name |-> Launch.name]
    /\ upCalls # <<>> =>
           /\ resolved # <<>>
           /\ Launch.namespace # undefined
           /\ Launch.namespace = IF Resolved.manifest # undefined
                                   THEN Resolved.manifest ELSE Resolved.current
           /\ Resolved.read = (Resolved.manifest = undefined)
           /\ m = [name |-> Launch.name, namespace |-> Launch.namespace]
    /\ (resolved # <<>> /\ Resolved.manifest = undefined /\ Resolved.current = undefined) =>
           /\ upCalls = <<>>
           /\ queries = {}
           /\ ~Polled
           /\ pc = "done"
           /\ Error(NoContext) \in shown

\* a manifest without a namespace, launched and polled in the current namespace
C11_Witness ==
    /\ resolved # <<>>
    /\ Resolved.manifest = undefined
    /\ Resolved.current = "dev"
    /\ upCalls # <<>>
    /\ Launch.namespace = "dev"
    /\ polls >= 2

\* the needsInstall checks of a run of a command
ChecksOf(cmd, run) == {i \in DOMAIN checks : checks[i].cmd = cmd /\ checks[i].run = run}
Passed(cmd, run) ==
    /\ ChecksOf(cmd, run) # {}
    /\ \A i \in ChecksOf(cmd, run) : ~checks[i].failed

\* the state part of C12
C12_Checked ==
    /\ \A i \in DOMAIN upCalls : Passed("up", upCalls[i].run)
    /\ \A i \in DOMAIN downCalls : Passed("down", downCalls[i].run)
    /\ \A i \in DOMAIN checks :
           checks[i].failed =>
               /\ \A j \in DOMAIN upCalls :
                      ~(checks[i].cmd = "up" /\ upCalls[j].run = checks[i].run)
               /\ \A j \in DOMAIN downCalls :
                      ~(checks[i].cmd = "down" /\ downCalls[j].run = checks[i].run)

\* C12: every okteto.up and okteto.down invocation belongs to a run that called
\* okteto.needsInstall before (for okteto.up, in an earlier step of the run), and a
\* run whose check asked for an install that failed invokes neither.
C12_CheckedBeforeUpAndDown ==
    /\ []C12_Checked
    /\ [][(upCalls' # upCalls) => Passed("up", upCalls'[Len(upCalls')].run)]_vars

\* the installs that upCommand and then downCommand asked for both failed
C12_Witness ==
    /\ \E i \in DOMAIN checks : checks[i].cmd = "up" /\ checks[i].failed
    /\ \E i \in DOMAIN checks :
           /\ checks[i].cmd = "down" /\ checks[i].failed
           /\ downs[checks[i].run].end = "installFailed"
    /\ upCalls = <<>> /\ downCalls = <<>>

\* the step is a turn of the loop
Turn == polls' # polls \/ returns' # returns

\* the state part of C13
C13_OtherTagGoesOn ==
    (Polled /\ ~last.threw /\ ~Terminal(last)) =>
        \/ pc = "polling"
        \/ atCap /\ result = timeoutResult

\* C13: a turn whose tag is neither ready nor failed, with or without an entry in
\* the message table, leaves the loop running for its next turn unless it is the
\* timeout-th turn, and has the next turn come after it.
C13_OnlyReadyFailedOrCapEnd ==
    /\ []C13_OtherTagGoesOn
    /\ [][(Turn /\ ~last'.threw /\ ~Terminal(last') /\ polls + 1 < timeout) =>
               (pc' = "polling" /\ polls' = polls + 1 /\ returns' = returns)]_vars

\* tags with and without a message were polled, and the loop went on to ready
C13_Witness ==
    /\ reports["stateless"] = <<undefined>>
    /\ reports["starting"] # <<>>
    /\ last.state = ready
    /\ pc = "done"
    /\ finalized = 1

\* C15: when the first getState to answer after the cancellation was raised gives
\* ready or failed, the loop ends on that answer and upCommand reports it as it
\* reports any ready or failed answer: finalizeUp for ready, onOktetoFailed with
\* the state's message for failed; the cancellation changes nothing of it.
C15_PollResultWins ==
    (cancelled /\ afterCancel = 1 /\ Terminal(last)) =>
        /\ pc \in {"returned", "done"}
        /\ last.state = ready =>
               /\ result.result
               /\ pc = "done" => (finalized = 1 /\ UpFailed = <<>> /\ ended = "ready")
        /\ last.state = failed =>
               /\ ~result.result /\ ~result.threw /\ result.message = last.message
               /\ pc = "done" =>
                      /\ finalized = 0
                      /\ ended = "failed"
                      /\ UpFailed = UpFailedWith(<<"Okteto: Up command failed: ",
                                                   last.message>>)

\* cancelled while a getState was awaited, which then gave ready
C15_Witness ==
    /\ cancelled
    /\ afterCancel = 1
    /\ last.state = ready
    /\ pc = "done"
    /\ finalized = 1

\* C16: when okteto.up fails upCommand is over at once: waitForUp was not called,
\* so that no progress was opened and no getState was issued, nothing was reported
\* through finalizeUp or onOktetoFailed, and activeManifest is as it was.
C16_LaunchFailureStopsUp ==
    (upCalls # <<>> /\ Launch.threw) =>
        /\ pc = "done"
        /\ ended = "launchFailed"
        /\ ~Polled /\ queries = {} /\ returns = 0
        /\ ~cancelled
        /\ finalized = 0 /\ UpFailed = <<>>
        /\ activeManifest = undefined

C16_Witness ==
    /\ upCalls # <<>>
    /\ Launch.threw
    /\ Launch.manifestPath = "okteto.yml"
    /\ ended = "launchFailed"

\* the state part of C17
C17_CounterCountsTurns ==
    pc = "polling" => (counter = polls /\ 0 <= counter /\ counter < timeout)

\* C17: the loop starts with counter 0; every turn that does not end it adds one to
\* counter, whatever tag it saw, and nothing else assigns counter, so that counter
\* is the number of turns that did not end the loop and stays below timeout: the
\* loop issues at most timeout getState calls.
C17_CounterNeverReset ==
    /\ []C17_CounterCountsTurns
    /\ [][(pc # "polling" /\ pc' = "polling") => (counter' = 0 /\ polls' = 0)]_vars
    /\ [][(pc = "polling" /\ pc' = "polling") =>
               (counter' = IF Turn THEN counter + 1 ELSE counter)]_vars
    /\ [][(pc = "polling" /\ pc' # "polling") =>
               (atCap' = (counter + 1 = timeout) /\ polls + 1 <= timeout)]_vars

\* turns with a tag seen before and with new tags, counted alike
C17_Witness ==
    /\ pc = "polling"
    /\ counter = 4
    /\ seen = {"starting", "stateless"}
    /\ cancelled

Successes == {Info(<<"Okteto was successfully installed">>),
              Info(<<"Okteto was successfully upgraded">>)}
NotInstalled == <<"Okteto was not installed: ", InstallError>>

\* C20: a run of installCmd shows a success message only when okteto.install did
\* not fail; when it failed the run shows the error message and nothing else if
\* handleErr is set, and else shows nothing and throws the error.
C20_SuccessOnlyWhenInstalled ==
    \A i \in DOMAIN installs :
        LET run == installs[i]
        IN  /\ (run.shown \cap Successes # {}) => run.installed
            /\ ~run.installed =>
                   IF run.handleErr
                     THEN ~run.threw /\ run.shown = {Error(NotInstalled)}
                     ELSE run.threw /\ run.error = NotInstalled /\ run.shown = {}

\* the state part of C19
C19_SetByLaunch ==
    activeManifest # undefined => (Launched /\ activeManifest = Launch.manifestPath)

\* the step in which the i-th run of downCommand ends otherwise than by a
\* successful okteto.down
EndsWithoutDown(i) ==
    downs[i].pc # "done" /\ downs'[i].pc = "done" /\ downs'[i].end # "down"

\* the step in which the i-th run of downCommand, past its install step, gets its
\* manifest from getManifestOrAsk
GetsManifest(i) ==
    downs[i].pc = "start" /\ downs'[i].pc # "start" /\ downs'[i].end # "installFailed"

\* C19: activeManifest is set only by the step that invoked okteto.up, to the path
\* okteto.up got; no step unsets it but a successful okteto.down settling, so the
\* end of upCommand (ready, failed, timed out) leaves it set, and so does every run
\* of downCommand that returns early or whose okteto.down fails; a run of
\* downCommand that finds it set goes on with that path and opens no picker.
C19_ActiveManifestTracksLaunch ==
    /\ []C19_SetByLaunch
    /\ [][(activeManifest' # activeManifest /\ activeManifest' # undefined) =>
               /\ Len(upCalls') = Len(upCalls) + 1
               /\ activeManifest' = upCalls'[Len(upCalls')].manifestPath]_vars
    /\ [][(activeManifest # undefined /\ activeManifest' = undefined) =>
               \E i \in DOMAIN downs :
                   downs[i].pc = "awaitDown" /\ downs'[i].end = "down"]_vars
    /\ [][(pc = "returned" /\ pc' = "done") => (activeManifest' = activeManifest)]_vars
    /\ [][\A i \in DOMAIN downs :
               EndsWithoutDown(i) => (activeManifest' = activeManifest)]_vars
    /\ [][\A i \in DOMAIN downs :
               (GetsManifest(i) /\ activeManifest # undefined) =>
                   /\ downs'[i].manifestPath = activeManifest
                   /\ ~downs'[i].asked
                   /\ (downs'[i].pc = "awaitDown") =>
                          downCalls'[Len(downCalls')].manifestPath = activeManifest]_vars

\* the attempt timed out, activeManifest stayed set, and the down run the user then
\* started tore that manifest down without asking and unset it
C19_Witness ==
    /\ atCap /\ result = timeoutResult /\ ended = "failed"
    /\ \E i \in DOMAIN downs :
           /\ downs[i].origin = "user"
           /\ downs[i].end = "down"
           /\ downs[i].manifestPath = Launch.manifestPath
           /\ ~downs[i].asked
    /\ activeManifest = undefined

\* C14: the two runs of upCommand never poll at a time for one (namespace, name).
C14_OneLoopPerIdentity ==
    ~(/\ pc = "polling"
      /\ second.pc = "polling"
      /\ second.m.namespace = m.namespace
      /\ second.m.name = m.name)

\* C18: a run of downCommand that the cancellation of the first run's progress
\* started tears down the manifest of the first run.
C18_CancelTearsDownOwnManifest ==
    \A i \in DOMAIN downCalls :
        downs[downCalls[i].run].origin = "cancel" =>
            downCalls[i].manifestPath = manifestUri

====
